---- MODULE Spec2Model ----
(***************************************************************************)
(* Proof-of-Learning verification (PoL/verify.py): verify_all,             *)
(* verify_topq, verify_initialization and verify_hash as state machines,   *)
(* and the spoofing attack attack3 (spoof_cifar/spoof_attack3.py).         *)
(* A checkpoint path os.path.join(dir, "model_step_<k>") is the pair       *)
(* <<"model_step", k>>; the value returned by the n-th call of train is    *)
(* the pair <<"reproduce", n>>.  train and utils.parameter_distance are    *)
(* external: the calls made to them are recorded in trainCalls and         *)
(* distCalls, and a distance result is any list of one distance per        *)
(* requested metric.                                                       *)
(***************************************************************************)
EXTENDS Integers, Sequences, FiniteSets, TLC

\* ------------------------------------------------------------- bounds
MaxN == 3
MaxSaveFreq == 2
MaxEpochs == 2
MaxQ == 2
MaxDist == 1
MaxT == 2
MaxK == 1
MaxCut == 2
MaxRetry == 2
MaxBatch == 2
MaxWeight == 1

\* ------------------------------------------------------------- helpers
Min(a, b) == IF a <= b THEN a ELSE b

Range(s) == {s[x] : x \in 1..Len(s)}

\* Python s[a:b] (0-based, end clamped to len(s)) and s[a:]
PySlice(s, a, b) == SubSeq(s, a + 1, Min(b, Len(s)))
PySliceFrom(s, a) == SubSeq(s, a + 1, Len(s))

\* os.path.join(dir, f"model_step_{k}")
ModelStep(k) == <<"model_step", k>>

\* the state returned by the n-th call of train
Reproduce(n) == <<"reproduce", n>>

\* ------------------------------------------------------------- inputs
\* contents of indices.npy: one dataset index per training step
IndexSequences == UNION {{[x \in 1..n |-> x - 1], [x \in 1..n |-> n - x]} : n \in 1..MaxN}

Distances == 0..MaxDist

\* order / threshold as the caller passes them: a scalar or a list
OrderArgs == {[isList |-> FALSE, val |-> <<"2">>],
              [isList |-> TRUE, val |-> <<"2">>],
              [isList |-> TRUE, val |-> <<"1", "inf">>]}

ThresholdLists == {<<0>>, <<1>>, <<0, 0>>, <<0, 1>>}

ThresholdArgs(o) == {[isList |-> o.isList, val |-> t] : t \in
                       IF o.isList THEN ThresholdLists ELSE {<<0>>, <<1>>}}

\* a result of utils.parameter_distance: one distance per requested metric
DistanceResults(cnt) == [1..cnt -> Distances]

VARIABLES
    pc,            \* control location of the running function
    raised,        \* the exception that ended the run, or "none"
    dirExists,     \* os.path.exists(dir)
    indicesFile,   \* contents of indices.npy
    orderArg,      \* the order argument
    thresholdArg,  \* the threshold argument
    save_freq,
    sequence,      \* the loaded Index Sequence (<<>> before np.load)
    order,         \* order after the list normalisation
    threshold,     \* threshold after the list normalisation
    i,             \* loop variable of verify_all
    target_model,
    previous_state,
    dist_list,     \* one row of distances per metric
    trainCalls,    \* calls of train, in call order
    distCalls,     \* calls of utils.parameter_distance, in call order
    above,         \* above_threshold, per metric
    verdicts,      \* the validity message logged, per metric
    returned,      \* the returned value (<<>> before the return)
    epochs,
    q,
    epoch,         \* loop variable of verify_topq
    start,
    end,
    next_model,
    current_model,
    topq_steps,    \* [ndim, val]: the array of selected interval indices
    pos,           \* number of elements of topq_steps already iterated
    res,           \* the variable res of verify_topq
    fn,            \* the function that was called
    hashFileExists,\* hash.txt exists in dir
    hashFile,      \* contents of hash.txt
    datasetFile,   \* the raw training data utils.load_dataset returns
    hash,          \* the recorded hash read from hash.txt
    trainset,      \* the loaded dataset: [loaded, data]
    subset,        \* torch.utils.data.Subset(trainset, sequence): [dataset, indices]
    m,             \* the bytes fed to the sha256 object so far
    d,             \* number of samples the hashing loop has consumed
    model_name,    \* architecture.__name__
    net,           \* net.named_parameters(), in order
    verbose,
    model_type,
    visited,       \* number of named parameters the loop has consumed
    p_list,
    args,          \* the command line of spoof_attack3.py
    w0,            \* W0': the state Initial_gen leaves in net
    wt,            \* Wt: the genuine checkpoint model_step_<iter>
    init_valid,    \* the result of Verify_init
    at_net,        \* net.state_dict() of attack3
    original_weight,
    step_weight,
    at_weight,
    cur_param,
    k_step_dy_dx,
    target_param,
    tmp_param,
    at_i,          \* loop variable i of attack3 (steps)
    at_j,          \* loop variable j of attack3 (sub-batches)
    at_k,          \* loop variable k of attack3 (retry attempts)
    img,           \* the base batch in use: the batch the loader returned
    dummy_label,   \* the labels of a drawn batch
    dummy_data,    \* the perturbation: [against, attempt], or Unbound
    d2grad,
    d2r,
    persisted,     \* the batch the current sub-batch wrote to dataset/ and dataset.txt
    img_idx,
    sgd_batch,     \* the (x, y) the current sub-batch fed to optimizer_net
    redrawn,       \* a batch was drawn from train_loader after the last attempt
    tallied,       \* the arguments of the distance call that tallies the current step
    valid_count,
    diff,
    checkpoints    \* the files spoof/<dataset>/model_step_<n> written

inVars == <<fn, dirExists, indicesFile, orderArg, thresholdArg, save_freq, epochs, q,
            hashFileExists, hashFile, datasetFile>>
runVars == <<sequence, order, threshold, dist_list, trainCalls, distCalls, above,
             verdicts, returned>>
vaVars == <<i, target_model, previous_state>>
tqVars == <<epoch, start, end, next_model, current_model, topq_steps, pos, res>>

vhVars == <<hash, trainset, subset, m, d>>
viVars == <<model_name, net, verbose, model_type, visited, p_list>>

atInVars == <<args, w0, wt, init_valid>>
atVars == <<atInVars, at_net, original_weight, step_weight, at_weight, cur_param,
            k_step_dy_dx, target_param, tmp_param, at_i, at_j, at_k, img, dummy_label,
            dummy_data, d2grad, d2r, persisted, img_idx, sgd_batch, redrawn,
            tallied, valid_count, diff, checkpoints>>

vars == <<pc, raised, inVars, runVars, vaVars, tqVars, vhVars, viVars, atVars>>

\* ------------------------------------------------------------- shared code
\* lines 26-28 / 69-71: a scalar order (threshold) is wrapped in a list
AsList(arg) == IF arg.isList THEN arg.val ELSE <<arg.val[1]>>

\* lines 30 / 73: assert len(order) == len(threshold)
AssertHolds(o, t) == (~o.isList) \/ Len(o.val) = Len(t.val)

\* a check that lets a missing directory pass
DirFoundAlways(exists) == TRUE

\* lines 22 / 65 / 196: os.path.exists(dir)
DirFound(exists) == exists

\* [[] for i in range(len(order))]
EmptyRows(cnt) == [j \in 1..cnt |-> <<>>]

\* dist_list[j].append(res[j]) for every j
AppendColumn(rows, r) == [j \in 1..Len(rows) |-> Append(rows[j], r[j])]

\* np.sum(row >= thr): the comparison made non-strict
RECURSIVE CountAboveOrEqual(_, _)
CountAboveOrEqual(row, thr) ==
    IF row = <<>> THEN 0
    ELSE (IF Head(row) >= thr THEN 1 ELSE 0) + CountAboveOrEqual(Tail(row), thr)

\* np.sum(row > thr)
RECURSIVE CountAbove(_, _)
CountAbove(row, thr) ==
    IF row = <<>> THEN 0
    ELSE (IF Head(row) > thr THEN 1 ELSE 0) + CountAbove(Tail(row), thr)

\* a message that never reports a violation
VerdictAlwaysValid(above_threshold) == "valid"

\* lines 54-60 / 122-128: the message logged for one metric
Verdict(above_threshold) == IF above_threshold = 0 THEN "valid" ELSE "invalid"

\* ------------------------------------------------------------- verify_all
\* the end of the interval without the clamp to the last step
NextStepUnclamped(i0, sf, n) == (i0 + 1) * sf

\* the end of the interval without the clamp to the last step
TargetStepUnclamped(i0, sf, n) == i0 + sf

\* lines 37-44: the end of the interval that starts at step i0
TargetStep(i0, sf, n) == IF i0 + sf >= n THEN n ELSE i0 + sf

\* the slice with the last index of a full interval left out
ReplaySliceShort(seq, i0, sf) ==
    IF i0 + sf >= Len(seq) THEN PySliceFrom(seq, i0) ELSE PySlice(seq, i0, i0 + sf - 1)

\* lines 39-44: the slice handed to train for the interval that starts at i0
ReplaySlice(seq, i0, sf) ==
    IF i0 + sf >= Len(seq) THEN PySliceFrom(seq, i0) ELSE PySlice(seq, i0, i0 + sf)

\* every input of verify_all / verify_topq
InitInputs ==
    /\ dirExists \in BOOLEAN
    /\ indicesFile \in IndexSequences
    /\ orderArg \in OrderArgs
    /\ thresholdArg \in ThresholdArgs(orderArg)
    /\ save_freq \in 1..MaxSaveFreq

\* the state before the first statement of a function
InitLocals ==
    /\ raised = "none"
    /\ sequence = <<>>
    /\ order = <<>>
    /\ threshold = <<>>
    /\ dist_list = <<>>
    /\ trainCalls = <<>>
    /\ distCalls = <<>>
    /\ above = <<>>
    /\ verdicts = <<>>
    /\ returned = <<>>
    /\ i = 0
    /\ target_model = ModelStep(0)
    /\ previous_state = ModelStep(0)
    /\ epoch = 0
    /\ start = 0
    /\ end = 0
    /\ next_model = ModelStep(0)
    /\ current_model = ModelStep(0)
    /\ topq_steps = [ndim |-> 1, val |-> <<>>]
    /\ pos = 0
    /\ res = <<>>
    /\ hash = <<>>
    /\ trainset = [loaded |-> FALSE, data |-> <<>>]
    /\ subset = [dataset |-> <<>>, indices |-> <<>>]
    /\ m = <<>>
    /\ d = 0
    /\ model_type = ""
    /\ visited = 0
    /\ p_list = <<>>

\* the inputs of verify_hash and verify_initialization, unused by the others
NoHashInputs ==
    /\ hashFileExists = FALSE
    /\ hashFile = <<>>
    /\ datasetFile = <<>>

NoInitInputs ==
    /\ model_name = <<>>
    /\ net = <<>>
    /\ verbose = FALSE

\* the inputs of verify_all / verify_topq, unused by attack3
NoVerifyInputs ==
    /\ dirExists = TRUE
    /\ indicesFile = <<0>>
    /\ orderArg = [isList |-> FALSE, val |-> <<"2">>]
    /\ thresholdArg = [isList |-> FALSE, val |-> <<0>>]
    /\ save_freq = 1
    /\ epochs = 1
    /\ q = 1

\* a name that has not been assigned yet
Unbound == [unbound |-> TRUE]

\* the locals of attack3 before line 130; d2grad and d2r are assigned by the
\* first optimisation round
AttackLocals ==
    /\ original_weight = [weight |-> 0, running_mean |-> 0]
    /\ step_weight = [weight |-> 0, running_mean |-> 0]
    /\ at_weight = [weight |-> 0, running_mean |-> 0]
    /\ cur_param = 0
    /\ k_step_dy_dx = 0
    /\ target_param = 0
    /\ tmp_param = 0
    /\ at_i = 0
    /\ at_j = 0
    /\ at_k = 0
    /\ img = 0
    /\ dummy_label = 0
    /\ dummy_data = Unbound
    /\ d2grad = 0
    /\ d2r = 0
    /\ persisted = Unbound
    /\ img_idx = 0
    /\ sgd_batch = Unbound
    /\ redrawn = FALSE
    /\ tallied = Unbound
    /\ valid_count = 0
    /\ diff = <<>>
    /\ checkpoints = <<>>

\* the inputs and the state of attack3, unused by the verifiers
NoAttack ==
    /\ args = [t |-> 1, k |-> 1, cut |-> 1, retry |-> 1, round |-> 1, verify |-> 1,
               gd |-> 1, nd |-> 1]
    /\ w0 = [weight |-> 0, running_mean |-> 0]
    /\ wt = [weight |-> 0, running_mean |-> 0]
    /\ init_valid = 1
    /\ at_net = [weight |-> 0, running_mean |-> 0]
    /\ AttackLocals

InitAll ==
    /\ fn = "verify_all"
    /\ NoAttack
    /\ pc = "va_start"
    /\ InitInputs
    /\ epochs = 1
    /\ q = 1
    /\ NoHashInputs
    /\ NoInitInputs
    /\ InitLocals

\* lines 22-23
VA_DirMissing ==
    /\ pc = "va_start"
    /\ ~DirFound(dirExists)
    /\ pc' = "raised"
    /\ raised' = "FileNotFoundError"
    /\ UNCHANGED <<inVars, runVars, vaVars, tqVars, vhVars, viVars, atVars>>

\* line 24
VA_Load ==
    /\ pc = "va_start"
    /\ DirFound(dirExists)
    /\ sequence' = indicesFile
    /\ pc' = "va_args"
    /\ UNCHANGED <<raised, inVars, order, threshold, dist_list, trainCalls, distCalls,
                   above, verdicts, returned, vaVars, tqVars, vhVars, viVars, atVars>>

\* lines 26-30, the assert failing
VA_AssertFails ==
    /\ pc = "va_args"
    /\ ~AssertHolds(orderArg, thresholdArg)
    /\ pc' = "raised"
    /\ raised' = "AssertionError"
    /\ UNCHANGED <<inVars, runVars, vaVars, tqVars, vhVars, viVars, atVars>>

\* lines 26-34
VA_Args ==
    /\ pc = "va_args"
    /\ AssertHolds(orderArg, thresholdArg)
    /\ order' = AsList(orderArg)
    /\ threshold' = AsList(thresholdArg)
    /\ dist_list' = EmptyRows(Len(AsList(orderArg)))
    /\ target_model' = ModelStep(0)
    /\ i' = 0
    /\ pc' = "va_loop"
    /\ UNCHANGED <<raised, inVars, sequence, trainCalls, distCalls, above, verdicts,
                   returned, previous_state, tqVars, vhVars, viVars, atVars>>

\* lines 35-48: one iteration of the loop over range(0, N, save_freq)
VA_Replay ==
    /\ pc = "va_loop"
    /\ i < Len(sequence)
    /\ previous_state' = target_model
    /\ target_model' = ModelStep(TargetStep(i, save_freq, Len(sequence)))
    /\ trainCalls' = Append(trainCalls,
                            [model_dir |-> target_model,
                             sequence |-> ReplaySlice(sequence, i, save_freq)])
    /\ \E r \in DistanceResults(Len(order)) :
          /\ distCalls' = Append(distCalls,
                                 [first |-> ModelStep(TargetStep(i, save_freq, Len(sequence))),
                                  second |-> Reproduce(Len(trainCalls) + 1)])
          /\ dist_list' = AppendColumn(dist_list, r)
    /\ i' = i + save_freq
    /\ UNCHANGED <<pc, raised, inVars, sequence, order, threshold, above, verdicts,
                   returned, tqVars, vhVars, viVars, atVars>>

\* lines 50-61
VA_Tally ==
    /\ pc = "va_loop"
    /\ i >= Len(sequence)
    /\ above' = [k \in 1..Len(order) |-> CountAbove(dist_list[k], threshold[k])]
    /\ verdicts' = [k \in 1..Len(order) |->
                        Verdict(CountAbove(dist_list[k], threshold[k]))]
    /\ returned' = dist_list
    /\ pc' = "done"
    /\ UNCHANGED <<raised, inVars, sequence, order, threshold, dist_list, trainCalls,
                   distCalls, vaVars, tqVars, vhVars, viVars, atVars>>

NextAll == VA_DirMissing \/ VA_Load \/ VA_AssertFails \/ VA_Args \/ VA_Replay \/ VA_Tally

SpecAll == InitAll /\ [][NextAll]_vars

\* ------------------------------------------------------------- verify_topq
\* np.round of the non-negative quotient num / den: halves go to the even integer
RoundHalfEven(num, den) ==
    LET fl == num \div den
        twice == 2 * (num % den)
    IN  IF twice < den THEN fl
        ELSE IF twice > den THEN fl + 1
        ELSE IF fl % 2 = 0 THEN fl ELSE fl + 1

\* lines 75, 80-81: np.round(ckpt_per_epoch * e) with
\* ckpt_per_epoch = sequence.shape[0] / epochs / save_freq
EpochBound(n, eps, sf, e) == RoundHalfEven(n * e, eps * sf)

\* lines 86-89: the step of the checkpoint that ends interval i0
NextStep(i0, sf, n) == IF (i0 + 1) * sf >= n THEN n ELSE (i0 + 1) * sf

\* the entries of the variable res: a distance of one metric, or the array of an epoch
DistanceEntry(x) == [kind |-> "distance", val |-> x]
EpochEntry(a) == [kind |-> "epoch", val |-> a]

\* res = utils.parameter_distance(...)
DistanceList(r) == [j \in 1..Len(r) |-> DistanceEntry(r[j])]

\* the sets of k column indices that hold k smallest values of a row
BottomQSets(row, k) ==
    {S \in SUBSET (0..(Len(row) - 1)) :
        /\ Cardinality(S) = k
        /\ \A a \in S : \A b \in (0..(Len(row) - 1)) \ S : row[a + 1] <= row[b + 1]}

\* the sets of k column indices (0-based) that hold k largest values of a row
TopQSets(row, k) ==
    {S \in SUBSET (0..(Len(row) - 1)) :
        /\ Cardinality(S) = k
        /\ \A a \in S : \A b \in (0..(Len(row) - 1)) \ S : row[a + 1] >= row[b + 1]}

\* the sequences that enumerate a set, each element once
Enumerations(S) ==
    {f \in [1..Cardinality(S) -> S] : \A a, b \in 1..Cardinality(S) : f[a] = f[b] => a = b}

\* line 96: np.argpartition(dist_arr, -q, axis=1)[:, -q:], every array it may return,
\* each row given as the set of its elements: row j holds the indices of q largest
\* values of row j (the order inside a row is not specified by numpy)
Argpartition(rows, k) ==
    {a \in [1..Len(rows) -> UNION {TopQSets(rows[j], k) : j \in 1..Len(rows)}] :
        \A j \in 1..Len(rows) : a[j] \in TopQSets(rows[j], k)}

\* line 96: argpartition accepts kth = -q on an axis of length n iff q <= n
KthInBounds(n, k) == k <= n

\* the sorted sequence of the elements of a set of integers
RECURSIVE SortedSeq(_)
SortedSeq(S) ==
    IF S = {} THEN <<>>
    ELSE LET lo == CHOOSE x \in S : \A y \in S : x <= y
         IN  <<lo>> \o SortedSeq(S \ {lo})

\* line 99: reduce(np.union1d, list(topq_steps))
Union1d(a) == SortedSeq(UNION {a[j] : j \in 1..Len(a)})

\* lines 96-99: the values topq_steps may take: the sorted 1-D union when several
\* metrics are requested, the 2-D array itself (one row, in any order) otherwise
TopqSteps(a) ==
    IF Len(a) > 1 THEN {[ndim |-> 1, val |-> Union1d(a)]}
    ELSE {[ndim |-> 2, val |-> <<r>>] : r \in Enumerations(a[1])}

\* line 103: int() of an element of topq_steps accepts a scalar or a one-element array
IntConvertible(t, x) == IF t.ndim = 1 THEN TRUE ELSE Len(x) = 1

\* line 103: the value int() takes from an element of topq_steps
IntOf(t, x) == IF t.ndim = 1 THEN x ELSE x[1]

InitTopq ==
    /\ fn = "verify_topq"
    /\ NoAttack
    /\ pc = "tq_start"
    /\ InitInputs
    /\ NoHashInputs
    /\ NoInitInputs
    /\ epochs \in 1..MaxEpochs
    /\ q \in 1..MaxQ
    /\ InitLocals

\* lines 65-66
TQ_DirMissing ==
    /\ pc = "tq_start"
    /\ ~DirFound(dirExists)
    /\ pc' = "raised"
    /\ raised' = "FileNotFoundError"
    /\ UNCHANGED <<inVars, runVars, vaVars, tqVars, vhVars, viVars, atVars>>

\* line 67
TQ_Load ==
    /\ pc = "tq_start"
    /\ DirFound(dirExists)
    /\ sequence' = indicesFile
    /\ pc' = "tq_args"
    /\ UNCHANGED <<raised, inVars, order, threshold, dist_list, trainCalls, distCalls,
                   above, verdicts, returned, vaVars, tqVars, vhVars, viVars, atVars>>

\* lines 69-73, the assert failing
TQ_AssertFails ==
    /\ pc = "tq_args"
    /\ ~AssertHolds(orderArg, thresholdArg)
    /\ pc' = "raised"
    /\ raised' = "AssertionError"
    /\ UNCHANGED <<inVars, runVars, vaVars, tqVars, vhVars, viVars, atVars>>

\* lines 69-76
TQ_Args ==
    /\ pc = "tq_args"
    /\ AssertHolds(orderArg, thresholdArg)
    /\ order' = AsList(orderArg)
    /\ threshold' = AsList(thresholdArg)
    /\ res' = <<>>
    /\ epoch' = 0
    /\ pc' = "tq_epoch"
    /\ UNCHANGED <<raised, inVars, sequence, dist_list, trainCalls, distCalls, above,
                   verdicts, returned, vaVars, start, end, next_model, current_model,
                   topq_steps, pos, vhVars, viVars, atVars>>

\* lines 78-83: the head of the loop over the epochs
TQ_EpochBegin ==
    /\ pc = "tq_epoch"
    /\ epoch < epochs
    /\ start' = EpochBound(Len(sequence), epochs, save_freq, epoch)
    /\ end' = EpochBound(Len(sequence), epochs, save_freq, epoch + 1)
    /\ dist_list' = EmptyRows(Len(order))
    /\ next_model' = ModelStep(EpochBound(Len(sequence), epochs, save_freq, epoch) * save_freq)
    /\ i' = EpochBound(Len(sequence), epochs, save_freq, epoch)
    /\ pc' = "tq_rank"
    /\ UNCHANGED <<raised, inVars, sequence, order, threshold, trainCalls, distCalls,
                   above, verdicts, returned, target_model, previous_state, epoch,
                   current_model, topq_steps, pos, res, vhVars, viVars, atVars>>

\* lines 84-93: one iteration of the ranking loop
TQ_Rank ==
    /\ pc = "tq_rank"
    /\ i < end
    /\ current_model' = next_model
    /\ next_model' = ModelStep(NextStep(i, save_freq, Len(sequence)))
    /\ distCalls' = Append(distCalls,
                           [first |-> next_model,
                            second |-> ModelStep(NextStep(i, save_freq, Len(sequence)))])
    /\ \E r \in DistanceResults(Len(order)) :
          /\ res' = DistanceList(r)
          /\ dist_list' = AppendColumn(dist_list, r)
    /\ i' = i + 1
    /\ UNCHANGED <<pc, raised, inVars, sequence, order, threshold, trainCalls, above,
                   verdicts, returned, target_model, previous_state, epoch, start, end,
                   topq_steps, pos, vhVars, viVars, atVars>>

\* lines 95-96: argpartition rejecting kth
TQ_SelectFails ==
    /\ pc = "tq_rank"
    /\ i >= end
    /\ ~KthInBounds(end - start, q)
    /\ pc' = "raised"
    /\ raised' = "ValueError"
    /\ UNCHANGED <<inVars, runVars, vaVars, tqVars, vhVars, viVars, atVars>>

\* lines 95-101
TQ_Select ==
    /\ pc = "tq_rank"
    /\ i >= end
    /\ KthInBounds(end - start, q)
    /\ \E a \in Argpartition(dist_list, q) : \E t \in TopqSteps(a) : topq_steps' = t
    /\ dist_list' = EmptyRows(Len(order))
    /\ pos' = 0
    /\ pc' = "tq_deep"
    /\ UNCHANGED <<raised, inVars, sequence, order, threshold, trainCalls, distCalls,
                   above, verdicts, returned, vaVars, epoch, start, end, next_model,
                   current_model, res, vhVars, viVars, atVars>>

\* line 103: int() rejecting an array of several elements
TQ_DeepFails ==
    /\ pc = "tq_deep"
    /\ pos < Len(topq_steps.val)
    /\ ~IntConvertible(topq_steps, topq_steps.val[pos + 1])
    /\ pc' = "raised"
    /\ raised' = "TypeError"
    /\ UNCHANGED <<inVars, runVars, vaVars, tqVars, vhVars, viVars, atVars>>

\* lines 102-116: one iteration of the loop over topq_steps
TQ_Deep ==
    /\ pc = "tq_deep"
    /\ pos < Len(topq_steps.val)
    /\ IntConvertible(topq_steps, topq_steps.val[pos + 1])
    /\ LET step == (start + IntOf(topq_steps, topq_steps.val[pos + 1])) * save_freq
       IN  /\ current_model' = ModelStep(step)
           /\ target_model' = ModelStep(TargetStep(step, save_freq, Len(sequence)))
           /\ trainCalls' = Append(trainCalls,
                                   [model_dir |-> ModelStep(step),
                                    sequence |-> ReplaySlice(sequence, step, save_freq)])
           /\ distCalls' = Append(distCalls,
                                  [first |-> ModelStep(TargetStep(step, save_freq, Len(sequence))),
                                   second |-> Reproduce(Len(trainCalls) + 1)])
    /\ \E r \in DistanceResults(Len(order)) :
          /\ res' = DistanceList(r)
          /\ dist_list' = AppendColumn(dist_list, r)
    /\ pos' = pos + 1
    /\ UNCHANGED <<pc, raised, inVars, sequence, order, threshold, above, verdicts,
                   returned, i, previous_state, epoch, start, end, next_model, topq_steps,
                   vhVars, viVars, atVars>>

\* lines 118-129: the thresholds are applied and the epoch's array is appended to res
TQ_Tally ==
    /\ pc = "tq_deep"
    /\ pos >= Len(topq_steps.val)
    /\ above' = [k \in 1..Len(order) |-> CountAbove(dist_list[k], threshold[k])]
    /\ verdicts' = [k \in 1..Len(order) |->
                        Verdict(CountAbove(dist_list[k], threshold[k]))]
    /\ res' = Append(res, EpochEntry(dist_list))
    /\ epoch' = epoch + 1
    /\ pc' = "tq_epoch"
    /\ UNCHANGED <<raised, inVars, sequence, order, threshold, dist_list, trainCalls,
                   distCalls, returned, vaVars, start, end, next_model, current_model,
                   topq_steps, pos, vhVars, viVars, atVars>>

\* line 130
TQ_Return ==
    /\ pc = "tq_epoch"
    /\ epoch >= epochs
    /\ returned' = res
    /\ pc' = "done"
    /\ UNCHANGED <<raised, inVars, sequence, order, threshold, dist_list, trainCalls,
                   distCalls, above, verdicts, vaVars, tqVars, vhVars, viVars, atVars>>

NextTopq ==
    \/ TQ_DirMissing \/ TQ_Load \/ TQ_AssertFails \/ TQ_Args \/ TQ_EpochBegin
    \/ TQ_Rank \/ TQ_SelectFails \/ TQ_Select \/ TQ_DeepFails \/ TQ_Deep
    \/ TQ_Tally \/ TQ_Return

SpecTopq == InitTopq /\ [][NextTopq]_vars

\* ------------------------------------------------------------- verify_hash
\* a raw sample is a one-pixel array; the dataset holds MaxN samples, so that
\* every index of an Index Sequence addresses one
Samples == {<<0>>, <<1>>}
Datasets == [1..MaxN -> Samples]

\* the decimal digits numpy prints for a pixel
DigitStr(x) == IF x = 0 THEN "0" ELSE IF x = 1 THEN "1" ELSE "2"

\* line 206: d.__str__().encode('utf-8') of a one-dimensional array
Str(x) == <<"[">> \o [n \in 1..Len(x) |-> DigitStr(x[n])] \o <<"]">>

\* lines 204, 208: sha256 is taken to be collision-free: the digest stands for the
\* message that was fed to the hash object
Hexdigest(msg) == <<"sha256", msg>>

\* the renderings of the samples data[idx[1]], data[idx[2]], ... (0-based indices)
RECURSIVE Rendering(_, _)
Rendering(data, idx) ==
    IF idx = <<>> THEN <<>>
    ELSE Str(data[Head(idx) + 1]) \o Rendering(data, Tail(idx))

\* every sample of the dataset, in dataset order
AllIndices(data) == [n \in 1..Len(data) |-> n - 1]

\* the hashes a hash.txt may hold: of the whole dataset, of the samples the Index
\* Sequence addresses, of nothing
RecordedHashes(data, seq) ==
    {Hexdigest(Rendering(data, AllIndices(data))), Hexdigest(Rendering(data, seq)),
     Hexdigest(<<>>)}

\* line 199: open(os.path.join(dir, "hash.txt"), "r") succeeds iff the file exists
FileOpens(exists) == exists

\* line 205: subset.dataset.data, the samples the hashing loop iterates over
HashedSamples(sub) == sub.dataset

\* lines 208-211: the message logged
HashVerdict(recorded, digest) == IF recorded # digest THEN "invalid" ELSE "valid"

InitHash ==
    /\ fn = "verify_hash"
    /\ NoAttack
    /\ pc = "vh_start"
    /\ dirExists \in BOOLEAN
    /\ indicesFile \in IndexSequences
    /\ hashFileExists \in BOOLEAN
    /\ datasetFile \in Datasets
    /\ hashFile \in RecordedHashes(datasetFile, indicesFile)
    /\ NoInitInputs
    /\ orderArg = [isList |-> FALSE, val |-> <<"2">>]
    /\ thresholdArg = [isList |-> FALSE, val |-> <<0>>]
    /\ save_freq = 1
    /\ epochs = 1
    /\ q = 1
    /\ InitLocals

\* lines 196-197
VH_DirMissing ==
    /\ pc = "vh_start"
    /\ ~DirFound(dirExists)
    /\ pc' = "raised"
    /\ raised' = "FileNotFoundError"
    /\ UNCHANGED <<inVars, runVars, vaVars, tqVars, vhVars, viVars, atVars>>

\* line 198
VH_Load ==
    /\ pc = "vh_start"
    /\ DirFound(dirExists)
    /\ sequence' = indicesFile
    /\ pc' = "vh_open"
    /\ UNCHANGED <<raised, inVars, order, threshold, dist_list, trainCalls, distCalls,
                   above, verdicts, returned, vaVars, tqVars, vhVars, viVars, atVars>>

\* line 199, hash.txt missing
VH_HashFileMissing ==
    /\ pc = "vh_open"
    /\ ~FileOpens(hashFileExists)
    /\ pc' = "raised"
    /\ raised' = "FileNotFoundError"
    /\ UNCHANGED <<inVars, runVars, vaVars, tqVars, vhVars, viVars, atVars>>

\* lines 199-200
VH_ReadHash ==
    /\ pc = "vh_open"
    /\ FileOpens(hashFileExists)
    /\ hash' = hashFile
    /\ pc' = "vh_dataset"
    /\ UNCHANGED <<raised, inVars, runVars, vaVars, tqVars, trainset, subset, m, d, viVars, atVars>>

\* lines 202-204
VH_LoadDataset ==
    /\ pc = "vh_dataset"
    /\ trainset' = [loaded |-> TRUE, data |-> datasetFile]
    /\ subset' = [dataset |-> datasetFile, indices |-> sequence]
    /\ m' = <<>>
    /\ d' = 0
    /\ pc' = "vh_loop"
    /\ UNCHANGED <<raised, inVars, runVars, vaVars, tqVars, hash, viVars, atVars>>

\* lines 205-206: one iteration of the hashing loop
VH_Update ==
    /\ pc = "vh_loop"
    /\ d < Len(HashedSamples(subset))
    /\ m' = m \o Str(HashedSamples(subset)[d + 1])
    /\ d' = d + 1
    /\ UNCHANGED <<pc, raised, inVars, runVars, vaVars, tqVars, hash, trainset, subset, viVars, atVars>>

\* lines 208-211
VH_Compare ==
    /\ pc = "vh_loop"
    /\ d >= Len(HashedSamples(subset))
    /\ verdicts' = <<HashVerdict(hash, Hexdigest(m))>>
    /\ pc' = "done"
    /\ UNCHANGED <<raised, inVars, sequence, order, threshold, dist_list, trainCalls,
                   distCalls, above, returned, vaVars, tqVars, vhVars, viVars, atVars>>

NextHash ==
    \/ VH_DirMissing \/ VH_Load \/ VH_HashFileMissing \/ VH_ReadHash \/ VH_LoadDataset
    \/ VH_Update \/ VH_Compare

SpecHash == InitHash /\ [][NextHash]_vars

\* ------------------------------------------------------------- verify_initialization
\* names are sequences of characters, so that Python's substring test and
\* str.replace are computed as Python computes them
S_weight == <<"w", "e", "i", "g", "h", "t">>
S_bias == <<"b", "i", "a", "s">>
S_conv == <<"c", "o", "n", "v">>
S_fc == <<"f", "c">>
S_linear == <<"l", "i", "n", "e", "a", "r">>
S_resnet == <<"r", "e", "s", "n", "e", "t">>
S_bn == <<"b", "n">>
S_down == <<"d", "o", "w", "n">>
S_vgg == <<"v", "g", "g">>
S_wide == <<"w", "i", "d", "e", "_">>

\* Python: pat in str
Contains(str, pat) ==
    \E x \in 0..(Len(str) - Len(pat)) : SubSeq(str, x + 1, x + Len(pat)) = pat

\* Python: str.replace(old, new), every occurrence from left to right
RECURSIVE Replace(_, _, _)
Replace(str, old, new) ==
    IF Len(str) < Len(old) THEN str
    ELSE IF SubSeq(str, 1, Len(old)) = old
         THEN new \o Replace(SubSeq(str, Len(old) + 1, Len(str)), old, new)
         ELSE <<Head(str)>> \o Replace(Tail(str), old, new)

\* the architectures: the six CIFAR-10 resnets, resnet50, two other names that
\* contain "resnet", and one that does not
CifarResnets == {S_resnet \o <<"2", "0">>, S_resnet \o <<"3", "2">>,
                 S_resnet \o <<"4", "4">>, S_resnet \o <<"5", "6">>,
                 S_resnet \o <<"1", "1", "0">>, S_resnet \o <<"1", "2", "0", "2">>}
Resnet50 == S_resnet \o <<"5", "0">>
OtherResnets == {S_resnet \o <<"1", "8">>, S_wide \o S_resnet}
OtherNames == {S_vgg}
ArchitectureNames == CifarResnets \cup {Resnet50} \cup OtherResnets \cup OtherNames

\* a named parameter of a layer: the name is "<layer>.<role>", ndim is
\* len(param.shape)
Param(layer, role, ndim) ==
    [name |-> layer \o <<".">> \o role, layer |-> layer, role |-> role, ndim |-> ndim]

\* networks built from layers that own a weight and, some of them, a bias
Nets == {
    <<Param(S_conv, S_weight, 4), Param(S_bn, S_weight, 1), Param(S_bn, S_bias, 1),
      Param(S_linear, S_weight, 2), Param(S_linear, S_bias, 1)>>,
    <<Param(S_conv, S_weight, 4), Param(S_down, S_weight, 4), Param(S_bn, S_weight, 1),
      Param(S_fc, S_weight, 2), Param(S_fc, S_bias, 1)>>,
    <<Param(S_conv, S_weight, 4), Param(S_conv, S_bias, 1), Param(S_fc, S_weight, 2),
      Param(S_fc, S_bias, 1)>>,
    <<Param(S_bn, S_weight, 1), Param(S_bn, S_bias, 1)>> }

\* p-values of utils.check_weights_initialization, in thousandths
PValues == {0, 10, 500}

\* line 133: threshold=0.01, in thousandths
DefaultThreshold == 10

\* lines 140-148
ModelType(name) ==
    IF name \in CifarResnets THEN "resnet_cifar"
    ELSE IF name = Resnet50 THEN "resnet_cifar100"
    ELSE IF Contains(name, S_resnet) THEN "resnet"
    ELSE "default"

NoTest == [rule |-> "none", paired |-> FALSE]
WeightTest(rule) == [rule |-> rule, paired |-> FALSE]
BiasTest == [rule |-> "default_bias", paired |-> TRUE]

\* the classification with the layer-name filter of the default ruleset left out
ClassifyAnyLayer(type, name, ndim) ==
    IF Contains(name, S_weight) THEN WeightTest("default")
    ELSE IF Contains(name, S_bias) THEN BiasTest
    ELSE NoTest

\* lines 150-183: the test one named parameter gets under a ruleset
Classify(type, name, ndim) ==
    IF type = "resnet" THEN
        IF Contains(name, S_weight) /\ Contains(name, S_conv) THEN WeightTest("resnet")
        ELSE IF Contains(name, S_weight) /\ Contains(name, S_fc) THEN WeightTest("default")
        ELSE IF Contains(name, S_bias) /\ (Contains(name, S_fc) \/ Contains(name, S_linear))
             THEN BiasTest
        ELSE NoTest
    ELSE IF type = "resnet_cifar100" THEN
        IF ndim = 4 THEN WeightTest("default")
        ELSE IF Contains(name, S_weight) /\ Contains(name, S_fc) THEN WeightTest("default")
        ELSE IF Contains(name, S_bias) /\ (Contains(name, S_fc) \/ Contains(name, S_linear))
             THEN BiasTest
        ELSE NoTest
    ELSE IF type = "resnet_cifar" THEN
        IF Contains(name, S_fc) \/ Contains(name, S_conv) \/ Contains(name, S_linear) THEN
            IF Contains(name, S_weight) THEN WeightTest("resnet_cifar")
            ELSE IF Contains(name, S_bias) THEN BiasTest
            ELSE NoTest
        ELSE NoTest
    ELSE
        IF Contains(name, S_fc) \/ Contains(name, S_conv) \/ Contains(name, S_linear) THEN
            IF Contains(name, S_weight) THEN WeightTest("default")
            ELSE IF Contains(name, S_bias) THEN BiasTest
            ELSE NoTest
        ELSE NoTest

\* lines 157 / 166 / 174 / 182: net.state_dict()[name.replace('bias', 'weight')],
\* given by the name of the tensor found (every layer of Nets has its weight)
PairedWeight(params, name) ==
    LET key == Replace(name, S_bias, S_weight)
    IN  (CHOOSE x \in Range(params) : x.name = key).name

\* np.min(p_list)
MinP(ps) == CHOOSE x \in {ps[n].p : n \in 1..Len(ps)} :
                \A y \in {ps[n].p : n \in 1..Len(ps)} : x <= y

InitInit ==
    /\ fn = "verify_initialization"
    /\ NoAttack
    /\ pc = "vi_start"
    /\ model_name \in ArchitectureNames
    /\ net \in Nets
    /\ verbose \in BOOLEAN
    /\ dirExists = TRUE
    /\ indicesFile = <<0>>
    /\ orderArg = [isList |-> FALSE, val |-> <<"2">>]
    /\ thresholdArg = [isList |-> FALSE, val |-> <<0>>]
    /\ save_freq = 1
    /\ epochs = 1
    /\ q = 1
    /\ NoHashInputs
    /\ InitLocals

\* lines 140-149
VI_Dispatch ==
    /\ pc = "vi_start"
    /\ model_type' = ModelType(model_name)
    /\ p_list' = <<>>
    /\ visited' = 0
    /\ pc' = "vi_loop"
    /\ UNCHANGED <<raised, inVars, runVars, vaVars, tqVars, vhVars, model_name, net,
                   verbose, atVars>>

\* lines 150-183: a named parameter that gets a test
VI_Test ==
    /\ pc = "vi_loop"
    /\ visited < Len(net)
    /\ Classify(model_type, net[visited + 1].name, net[visited + 1].ndim).rule # "none"
    /\ \E pv \in PValues :
          p_list' = Append(p_list,
              [param |-> net[visited + 1].name,
               rule |-> Classify(model_type, net[visited + 1].name,
                                 net[visited + 1].ndim).rule,
               weight |-> IF Classify(model_type, net[visited + 1].name,
                                      net[visited + 1].ndim).paired
                          THEN PairedWeight(net, net[visited + 1].name)
                          ELSE <<>>,
               p |-> pv])
    /\ visited' = visited + 1
    /\ UNCHANGED <<pc, raised, inVars, runVars, vaVars, tqVars, vhVars, model_name, net,
                   verbose, model_type, atVars>>

\* lines 150-183: a named parameter that no branch of the ruleset matches
VI_Skip ==
    /\ pc = "vi_loop"
    /\ visited < Len(net)
    /\ Classify(model_type, net[visited + 1].name, net[visited + 1].ndim).rule = "none"
    /\ visited' = visited + 1
    /\ UNCHANGED <<pc, raised, inVars, runVars, vaVars, tqVars, vhVars, model_name, net,
                   verbose, model_type, p_list, atVars>>

\* line 186: np.min of an empty list
VI_MinFails ==
    /\ pc = "vi_loop"
    /\ visited >= Len(net)
    /\ verbose
    /\ p_list = <<>>
    /\ pc' = "raised"
    /\ raised' = "ValueError"
    /\ UNCHANGED <<inVars, runVars, vaVars, tqVars, vhVars, viVars, atVars>>

\* lines 185-192, verbose
VI_Report ==
    /\ pc = "vi_loop"
    /\ visited >= Len(net)
    /\ verbose
    /\ p_list # <<>>
    /\ verdicts' = <<IF MinP(p_list) < DefaultThreshold THEN "invalid" ELSE "valid">>
    /\ returned' = p_list
    /\ pc' = "done"
    /\ UNCHANGED <<raised, inVars, sequence, order, threshold, dist_list, trainCalls,
                   distCalls, above, vaVars, tqVars, vhVars, viVars, atVars>>

\* lines 185, 192, not verbose
VI_Return ==
    /\ pc = "vi_loop"
    /\ visited >= Len(net)
    /\ ~verbose
    /\ returned' = p_list
    /\ pc' = "done"
    /\ UNCHANGED <<raised, inVars, sequence, order, threshold, dist_list, trainCalls,
                   distCalls, above, verdicts, vaVars, tqVars, vhVars, viVars, atVars>>

NextInit == VI_Dispatch \/ VI_Test \/ VI_Skip \/ VI_MinFails \/ VI_Report \/ VI_Return

SpecInit == InitInit /\ [][NextInit]_vars

\* ------------------------------------------------------------- attack3
\* A weight is kept as its numerator over the denominator args.t, so that the
\* division by args.t of lines 148 and 151 is exact.  A state_dict has one
\* parameter ("weight") and one buffer ("running_mean"); net.parameters()
\* yields the parameter only.
StateKeys == {"weight", "running_mean"}

Parameters(sd) == sd.weight

\* a genuine checkpoint, brought to the denominator t
Scaled(sd, t) == [ky \in StateKeys |-> sd[ky] * t]

\* torch.div(x, args.t), x a multiple of t
TorchDiv(x, t) == x \div t

\* lines 146-148: step_weight[key] = torch.div(torch.sub(at_weight[key], original_weight[key]), args.t)
StepWeight(at_w, orig, t) == [ky \in StateKeys |-> TorchDiv(at_w[ky] - orig[ky], t)]

\* line 151: torch.div(torch.sub(cur, at), args.t)
KStepDyDx(cur, at, t) == TorchDiv(cur - at, t)

\* line 164: torch.add(-s, cur)
TargetParam(s, cur) == cur - s

\* original_weight left at the state it had before the loop
OriginalWeightStale(netstate, previous) == previous

\* line 165: original_weight = copy.deepcopy(net.state_dict())
OriginalWeight(netstate, previous) == netstate

\* lines 294-296: new_weight[key] = torch.add(original_weight[key], step_weight[key])
NewWeight(orig, step) == [ky \in StateKeys |-> orig[ky] + step[ky]]

\* net.load_state_dict(sd): every key of net is overwritten by sd
LoadStateDict(netstate, sd) == sd

\* a forward pass in training mode moves the buffers to the statistics of
\* its input batch, and leaves the parameters
ForwardTrain(sd, batch) == [sd EXCEPT !.running_mean = batch]

\* lines 226-234: n steps of optimizer_net on the network
SgdSteps(sd, n, batch) ==
    IF n = 0 THEN {sd}
    ELSE {[ForwardTrain(sd, batch) EXCEPT !.weight = sd.weight + u] : u \in {0, 1}}

\* an acceptance that needs only one of the two ceilings
AcceptsEither(g, r, a) == g < a.gd \/ r < a.nd

\* line 209: d2grad < args.gd and d2r < args.nd
Accepts(g, r, a) == g < a.gd /\ r < a.nd

\* lines 221 / 226: int(args.k / args.cut)
ImagesPerCut(a) == a.k \div a.cut

\* line 219: torch.clamp(dummy_data.cpu() + img.cpu(), 0, 1)
FakeImg(dd, base) == [pert |-> dd, base |-> base]

\* the batches the shuffling train_loader can return first
Batches == 1..MaxBatch

\* the values d2grad and d2r can take after the optimisation rounds
D2Values == {0, 1}

\* lines 41-42, the thresholds in hundredths
AttackOrder == <<"1", "2", "inf", "cos">>
AttackThreshold == <<100000, 1000, 10, 1>>

\* the distance lists two different parameter sets can have
DistanceOutcomes == {AttackThreshold, <<0, 0, 0, 2>>}

\* utils.parameter_distance on in-memory parameter lists: every metric is 0
\* for identical parameter sets
ParameterDistance(a, b) == IF a = b THEN {[n \in 1..4 |-> 0]} ELSE DistanceOutcomes

\* lines 279-286: flag is set when a metric is above its threshold
Flag(r) == IF \E n \in 1..4 : r[n] > AttackThreshold[n] THEN 1 ELSE 0

\* --gd and --nd: no attempt passes, an attempt with d2grad <= 1 and d2r = 0
\* passes, every attempt passes
Ceilings == {<<0, 1>>, <<2, 1>>, <<2, 2>>}

AttackArgs ==
    {[t |-> t, k |-> k, cut |-> cut, retry |-> retry, round |-> round, verify |-> verify,
      gd |-> c[1], nd |-> c[2]] :
        t \in 1..MaxT, k \in 1..MaxK, cut \in 1..MaxCut, retry \in 0..MaxRetry,
        round \in 0..1, verify \in 0..1, c \in Ceilings}

GenuineStates == {[weight |-> w, running_mean |-> 0] : w \in 0..MaxWeight}

InitialStates == {[weight |-> 1, running_mean |-> 0]}

InitAttack ==
    /\ fn = "attack3"
    /\ pc = "at_start"
    /\ NoVerifyInputs
    /\ NoHashInputs
    /\ NoInitInputs
    /\ InitLocals
    /\ args \in AttackArgs
    /\ w0 \in InitialStates
    /\ wt \in GenuineStates
    /\ init_valid \in 0..1
    /\ at_net = Scaled(w0, args.t)
    /\ AttackLocals

\* lines 126-128: Verify_init rejects the initial state and the script exits
AT_Exit ==
    /\ pc = "at_start"
    /\ init_valid = 0
    /\ pc' = "exited"
    /\ UNCHANGED <<raised, inVars, runVars, vaVars, tqVars, vhVars, viVars, atVars>>

\* lines 130-158: model_step_0 is saved, the step is fixed and the first batch drawn
AT_Setup ==
    /\ pc = "at_start"
    /\ init_valid # 0
    /\ checkpoints' = [n \in {0} |-> at_net]
    /\ img_idx' = 0
    /\ original_weight' = at_net
    /\ at_weight' = Scaled(wt, args.t)
    /\ step_weight' = StepWeight(at_weight', original_weight', args.t)
    /\ cur_param' = Parameters(at_net)
    /\ k_step_dy_dx' = KStepDyDx(cur_param', Parameters(Scaled(wt, args.t)), args.t)
    /\ valid_count' = 0
    /\ \E b \in Batches : img' = b /\ dummy_label' = b
    /\ redrawn' = FALSE
    /\ at_i' = 0
    /\ pc' = "at_step"
    /\ UNCHANGED <<raised, inVars, runVars, vaVars, tqVars, vhVars, viVars, atInVars, at_net,
                   target_param, tmp_param, at_j, at_k, dummy_data, d2grad, d2r, 
                   persisted, sgd_batch, tallied, diff>>

\* lines 160-166: a step begins
AT_StepBegin ==
    /\ pc = "at_step"
    /\ at_i < args.t
    /\ cur_param' = Parameters(at_net)
    /\ target_param' = TargetParam(k_step_dy_dx, cur_param')
    /\ original_weight' = OriginalWeight(at_net, original_weight)
    /\ tallied' = Unbound
    /\ at_j' = 0
    /\ pc' = "at_cut"
    /\ UNCHANGED <<raised, inVars, runVars, vaVars, tqVars, vhVars, viVars, atInVars, at_net,
                   step_weight, at_weight, k_step_dy_dx, tmp_param, at_i, at_k, img,
                   dummy_label, dummy_data, d2grad, d2r, persisted, img_idx,
                   sgd_batch, redrawn, valid_count, diff,
                   checkpoints>>

\* line 160: range(args.t) is exhausted
AT_StepsDone ==
    /\ pc = "at_step"
    /\ at_i >= args.t
    /\ pc' = "at_conclusion"
    /\ UNCHANGED <<raised, inVars, runVars, vaVars, tqVars, vhVars, viVars, atVars>>

\* lines 168-175: a sub-batch begins; range(args.retry) may be empty
AT_CutBegin ==
    /\ pc = "at_cut"
    /\ at_j < args.cut
    /\ tmp_param' = Parameters(at_net)
    /\ at_k' = 0
    /\ persisted' = Unbound
    /\ sgd_batch' = Unbound
    /\ pc' = IF args.retry > 0 THEN "at_retry" ELSE "at_persist"
    /\ UNCHANGED <<raised, inVars, runVars, vaVars, tqVars, vhVars, viVars, atInVars, at_net,
                   original_weight, step_weight, at_weight, cur_param, k_step_dy_dx,
                   target_param, at_i, at_j, img, dummy_label, dummy_data, d2grad, d2r,
                   img_idx, redrawn, tallied, valid_count, diff,
                   checkpoints>>

\* lines 168, 240: range(args.cut) is exhausted and verification is disabled
AT_CutsDoneNoVerify ==
    /\ pc = "at_cut"
    /\ at_j >= args.cut
    /\ args.verify = 0
    /\ at_i' = at_i + 1
    /\ pc' = "at_step"
    /\ UNCHANGED <<raised, inVars, runVars, vaVars, tqVars, vhVars, viVars, atInVars, at_net,
                   original_weight, step_weight, at_weight, cur_param, k_step_dy_dx,
                   target_param, tmp_param, at_j, at_k, img, dummy_label, dummy_data,
                   d2grad, d2r, persisted, img_idx, sgd_batch, redrawn,
                   tallied, valid_count, diff, checkpoints>>

\* lines 168, 240: range(args.cut) is exhausted and verification is enabled
AT_CutsDone ==
    /\ pc = "at_cut"
    /\ at_j >= args.cut
    /\ args.verify # 0
    /\ pc' = "at_verify"
    /\ UNCHANGED <<raised, inVars, runVars, vaVars, tqVars, vhVars, viVars, atVars>>

\* lines 176-207: one attempt: cur_net is net's own state_dict, a new
\* perturbation is optimised against img for args.round rounds
AT_Optimize ==
    /\ pc = "at_retry"
    /\ dummy_data' = [against |-> img, attempt |-> at_k]
    /\ redrawn' = FALSE
    /\ IF args.round > 0
       THEN /\ at_net' = ForwardTrain(LoadStateDict(at_net, at_net), img)
            /\ \E g \in D2Values : d2grad' = g
            /\ \E r \in D2Values : d2r' = r
       ELSE /\ at_net' = LoadStateDict(at_net, at_net)
            /\ UNCHANGED <<d2grad, d2r>>
    /\ pc' = "at_decide"
    /\ UNCHANGED <<raised, inVars, runVars, vaVars, tqVars, vhVars, viVars, atInVars,
                   original_weight, step_weight, at_weight, cur_param, k_step_dy_dx,
                   target_param, tmp_param, at_i, at_j, at_k, img, dummy_label, 
                   persisted, img_idx, sgd_batch, tallied, 
                   valid_count, diff, checkpoints>>

\* line 209: d2grad was never assigned (args.round = 0)
AT_DecideFails ==
    /\ pc = "at_decide"
    /\ args.round = 0
    /\ pc' = "raised"
    /\ raised' = "UnboundLocalError"
    /\ UNCHANGED <<inVars, runVars, vaVars, tqVars, vhVars, viVars, atVars>>

\* lines 209-210: the attempt meets both ceilings
AT_Accept ==
    /\ pc = "at_decide"
    /\ args.round > 0
    /\ Accepts(d2grad, d2r, args)
    /\ pc' = "at_persist"
    /\ UNCHANGED <<raised, inVars, runVars, vaVars, tqVars, vhVars, viVars, atVars>>

\* lines 211-215 and 175: a new base batch is drawn, then the next attempt or
\* the end of range(args.retry)
AT_Redraw ==
    /\ pc = "at_decide"
    /\ args.round > 0
    /\ ~Accepts(d2grad, d2r, args)
    /\ \E b \in Batches : img' = b /\ dummy_label' = b
    /\ redrawn' = TRUE
    /\ at_k' = at_k + 1
    /\ pc' = IF at_k + 1 < args.retry THEN "at_retry" ELSE "at_persist"
    /\ UNCHANGED <<raised, inVars, runVars, vaVars, tqVars, vhVars, viVars, atInVars, at_net,
                   original_weight, step_weight, at_weight, cur_param, k_step_dy_dx,
                   target_param, tmp_param, at_i, at_j, dummy_data, d2grad, d2r, 
                   persisted, img_idx, sgd_batch, tallied, valid_count,
                   diff, checkpoints>>

\* line 219: dummy_data was never assigned (args.retry = 0)
AT_PersistFails ==
    /\ pc = "at_persist"
    /\ dummy_data = Unbound
    /\ pc' = "raised"
    /\ raised' = "UnboundLocalError"
    /\ UNCHANGED <<inVars, runVars, vaVars, tqVars, vhVars, viVars, atVars>>

\* lines 219-224: the synthetic batch is built and written to the dataset log
AT_Persist ==
    /\ pc = "at_persist"
    /\ dummy_data # Unbound
    /\ persisted' = IF ImagesPerCut(args) > 0
                    THEN [img |-> FakeImg(dummy_data, img), label |-> dummy_label]
                    ELSE persisted
    /\ img_idx' = img_idx + ImagesPerCut(args)
    /\ pc' = "at_sgd"
    /\ UNCHANGED <<raised, inVars, runVars, vaVars, tqVars, vhVars, viVars, atInVars, at_net,
                   original_weight, step_weight, at_weight, cur_param, k_step_dy_dx,
                   target_param, tmp_param, at_i, at_j, at_k, img, dummy_label, dummy_data,
                   d2grad, d2r, sgd_batch, redrawn, tallied, valid_count,
                   diff, checkpoints>>

\* lines 226-238: the network is trained on the synthetic batch
AT_Sgd ==
    /\ pc = "at_sgd"
    /\ sgd_batch' = IF ImagesPerCut(args) > 0
                    THEN [x |-> FakeImg(dummy_data, img), y |-> dummy_label]
                    ELSE sgd_batch
    /\ \E s \in SgdSteps(at_net, ImagesPerCut(args), img) : at_net' = s
    /\ at_j' = at_j + 1
    /\ pc' = "at_cut"
    /\ UNCHANGED <<raised, inVars, runVars, vaVars, tqVars, vhVars, viVars, atInVars,
                   original_weight, step_weight, at_weight, cur_param, k_step_dy_dx,
                   target_param, tmp_param, at_i, at_k, img, dummy_label, dummy_data,
                   d2grad, d2r, persisted, img_idx, redrawn, tallied,
                   valid_count, diff, checkpoints>>

\* lines 240-293: the step is tallied and its distances are added to diff
AT_Verify ==
    /\ pc = "at_verify"
    /\ LET dummy_param == Parameters(at_net)
       IN  /\ tallied' = [first |-> target_param, second |-> dummy_param]
           /\ \E r \in ParameterDistance(target_param, dummy_param) :
                 /\ valid_count' = IF Flag(r) = 0 THEN valid_count + 1 ELSE valid_count
                 /\ diff' = Append(diff, r)
    /\ pc' = "at_overwrite"
    /\ UNCHANGED <<raised, inVars, runVars, vaVars, tqVars, vhVars, viVars, atInVars, at_net,
                   original_weight, step_weight, at_weight, cur_param, k_step_dy_dx,
                   target_param, tmp_param, at_i, at_j, at_k, img, dummy_label, dummy_data,
                   d2grad, d2r, persisted, img_idx, sgd_batch, redrawn,
                   checkpoints>>

\* lines 294-300: the network is overwritten and saved as the step's checkpoint
AT_Overwrite ==
    /\ pc = "at_overwrite"
    /\ at_net' = LoadStateDict(at_net, NewWeight(original_weight, step_weight))
    /\ checkpoints' = [n \in DOMAIN checkpoints \cup {args.k * (at_i + 1)} |->
                          IF n = args.k * (at_i + 1) THEN at_net' ELSE checkpoints[n]]
    /\ at_i' = at_i + 1
    /\ pc' = "at_step"
    /\ UNCHANGED <<raised, inVars, runVars, vaVars, tqVars, vhVars, viVars, atInVars,
                   original_weight, step_weight, at_weight, cur_param, k_step_dy_dx,
                   target_param, tmp_param, at_j, at_k, img, dummy_label, dummy_data,
                   d2grad, d2r, persisted, img_idx, sgd_batch, redrawn,
                   tallied, valid_count, diff>>

\* lines 310-313: np.min(diff[k]) of a diff that has no column
AT_ConclusionFails ==
    /\ pc = "at_conclusion"
    /\ diff = <<>>
    /\ pc' = "raised"
    /\ raised' = "ValueError"
    /\ UNCHANGED <<inVars, runVars, vaVars, tqVars, vhVars, viVars, atVars>>

\* lines 303-329
AT_Conclusion ==
    /\ pc = "at_conclusion"
    /\ diff # <<>>
    /\ pc' = "done"
    /\ UNCHANGED <<raised, inVars, runVars, vaVars, tqVars, vhVars, viVars, atVars>>

NextAttack ==
    \/ AT_Exit \/ AT_Setup \/ AT_StepBegin \/ AT_StepsDone \/ AT_CutBegin
    \/ AT_CutsDoneNoVerify \/ AT_CutsDone \/ AT_Optimize \/ AT_DecideFails \/ AT_Accept
    \/ AT_Redraw \/ AT_PersistFails \/ AT_Persist \/ AT_Sgd \/ AT_Verify \/ AT_Overwrite
    \/ AT_ConclusionFails \/ AT_Conclusion

SpecAttack == InitAttack /\ [][NextAttack]_vars

\* ------------------------------------------------------------- the three verifiers
Init == InitAll \/ InitTopq \/ InitHash

Next == NextAll \/ NextTopq \/ NextHash

Spec == Init /\ [][Next]_vars

\* ------------------------------------------------------------- properties
RECURSIVE Flatten(_)
Flatten(ss) == IF ss = <<>> THEN <<>> ELSE Head(ss) \o Flatten(Tail(ss))

CeilDiv(a, b) == (a + b - 1) \div b

\* the slices handed to train, in call order
Slices == [n \in 1..Len(trainCalls) |-> trainCalls[n].sequence]

\* the intervals (1-based, in call order) whose distance exceeds the threshold of metric k
Violating(k) == {n \in 1..Len(dist_list[k]) : dist_list[k][n] > threshold[k]}

\* C1: in verify_all the slices handed to train, concatenated in call order, are
\* the recorded Index Sequence up to the loop position, and the whole sequence
\* when the loop is over; every slice is non-empty and has exactly save_freq
\* indices, except that the last slice of the run may be shorter.
C1_SlicesReplaySequence ==
    pc \in {"va_loop", "done"} =>
        /\ Flatten(Slices) = PySlice(indicesFile, 0, i)
        /\ (i >= Len(indicesFile) => Flatten(Slices) = indicesFile)
        /\ \A n \in 1..Len(Slices) :
              /\ Len(Slices[n]) >= 1
              /\ Len(Slices[n]) <= save_freq
              /\ (Len(Slices[n]) < save_freq =>
                     n = Len(Slices) /\ i >= Len(indicesFile))

\* C1 witness: a finished run of several intervals whose last slice is short
C1_Witness ==
    /\ pc = "done"
    /\ Len(trainCalls) >= 2
    /\ Len(trainCalls[Len(trainCalls)].sequence) < save_freq
    /\ Len(trainCalls[1].sequence) = save_freq

\* C2: in verify_all the n-th replay starts from the recorded checkpoint
\* model_step_{(n-1)*save_freq}, its result is compared against the recorded
\* checkpoint model_step_{min(n*save_freq, N)}, each replay adds exactly one
\* distance per metric, and a finished run holds ceil(N/save_freq) distances
\* per metric.
C2_ReplayFromRecorded ==
    pc \in {"va_loop", "done"} =>
        /\ Len(distCalls) = Len(trainCalls)
        /\ \A n \in 1..Len(trainCalls) :
              /\ trainCalls[n].model_dir = ModelStep((n - 1) * save_freq)
              /\ distCalls[n].first = ModelStep(Min(n * save_freq, Len(indicesFile)))
              /\ distCalls[n].second = Reproduce(n)
        /\ \A k \in 1..Len(order) : Len(dist_list[k]) = Len(trainCalls)
        /\ (pc = "done" =>
              \A k \in 1..Len(order) :
                 Len(returned[k]) = CeilDiv(Len(indicesFile), save_freq))

\* C2 witness: a finished run over several intervals, the last one clamped to N
C2_Witness ==
    /\ pc = "done"
    /\ Len(trainCalls) >= 2
    /\ Len(indicesFile) % save_freq # 0
    /\ Len(order) = 2

\* C3: when verify_all ends, above_threshold of a metric is the number of
\* intervals whose distance strictly exceeds that metric's threshold, and the
\* message of a metric says valid iff that number is 0; so every metric is
\* reported valid iff no metric has a violating interval, a run whose distances
\* are all 0 has no violation, and a run with exactly one interval above every
\* threshold and all others at 0 has exactly 1 violation per metric.
C3_ViolationCount ==
    pc = "done" =>
        /\ \A k \in 1..Len(order) :
              /\ above[k] = Cardinality(Violating(k))
              /\ (verdicts[k] = "valid" <=> Violating(k) = {})
        /\ ((\A k \in 1..Len(order) : verdicts[k] = "valid")
               <=> (\A k \in 1..Len(order) : above[k] = 0))
        /\ ((\A k \in 1..Len(order) : \A n \in 1..Len(dist_list[k]) : dist_list[k][n] = 0)
               => \A k \in 1..Len(order) : above[k] = 0 /\ verdicts[k] = "valid")
        /\ \A p \in 1..Len(trainCalls) :
              (\A k \in 1..Len(order) : \A n \in 1..Len(dist_list[k]) :
                    IF n = p THEN dist_list[k][n] > threshold[k] ELSE dist_list[k][n] = 0)
                 => \A k \in 1..Len(order) : above[k] = 1 /\ verdicts[k] = "invalid"

\* C3 witness: two metrics, three intervals, exactly one of them above both thresholds
C3_Witness ==
    /\ pc = "done"
    /\ Len(order) = 2
    /\ Len(trainCalls) = 3
    /\ \A k \in 1..2 : Violating(k) = {2} /\ above[k] = 1
    /\ \E k \in 1..2 : dist_list[k][1] = threshold[k]

\* the distance calls of the ranking loop of the current epoch (pc = "tq_rank")
RankCall(n) == distCalls[Len(distCalls) - (i - start) + n]

\* the interval indices held by topq_steps
Selected ==
    IF topq_steps.ndim = 1 THEN Range(topq_steps.val)
    ELSE UNION {Range(topq_steps.val[r]) : r \in 1..Len(topq_steps.val)}

\* the calls of train made for intervals of the current epoch
IsDeepCall(c) == c.model_dir[2] >= start * save_freq
DeepCalls == SelectSeq(trainCalls, IsDeepCall)

LargestSets(row, k) ==
    {S \in SUBSET (0..(Len(row) - 1)) :
        /\ Cardinality(S) = k
        /\ \A x \in S : \A y \in (0..(Len(row) - 1)) \ S : row[x + 1] >= row[y + 1]}

\* the unions of one such set for each of the first cnt rows
RECURSIVE UnionsOfLargest(_, _, _)
UnionsOfLargest(rows, cnt, k) ==
    IF cnt = 0 THEN {{}}
    ELSE {U \cup S : U \in UnionsOfLargest(rows, cnt - 1, k), S \in LargestSets(rows[cnt], k)}

\* C5: when verify_topq with two or more metrics selects the intervals of
\* Phase 2 (which requires 1 <= q <= number of intervals of the epoch), the
\* selection is the union, over the metrics, of a set of q intervals of largest
\* distance for that metric; it is a sorted list without duplicates of interval
\* indices of the epoch, of size at least q and at most
\* min(number of intervals, q * number of metrics).
C5_UnionOfTopQ ==
    [][(fn = "verify_topq" /\ pc = "tq_rank" /\ pc' = "tq_deep" /\ Len(order) >= 2) =>
         LET T == Range(topq_steps'.val)
             n == end - start
         IN  /\ q >= 1 /\ q <= n
             /\ topq_steps'.ndim = 1
             /\ Len(topq_steps'.val) = Cardinality(T)
             /\ T \subseteq 0..(n - 1)
             /\ Cardinality(T) >= q
             /\ Cardinality(T) <= Min(n, q * Len(order))
             /\ T \in UnionsOfLargest(dist_list, Len(order), q)
      ]_vars

\* C5 witness: two metrics that disagree on the single top interval among three
C5_Witness ==
    /\ fn = "verify_topq"
    /\ pc = "tq_deep"
    /\ pos = 0
    /\ Len(order) = 2
    /\ q = 1
    /\ end - start = 3
    /\ Len(topq_steps.val) = 2

\* C6 (as claimed): when Phase 2 of an epoch of verify_topq is over, train has
\* been called exactly once for every selected interval index ind, from
\* model_step_{(start+ind)*save_freq} on sequence[step : step+save_freq], and
\* for no other interval, whatever the number of metrics.
C6_DeepReplaysSelection ==
    (/\ fn = "verify_topq"
     /\ \/ (pc = "tq_deep" /\ pos >= Len(topq_steps.val))
        \/ (pc = "raised" /\ raised = "TypeError")) =>
        /\ Len(DeepCalls) = Cardinality(Selected)
        /\ \A ind \in Selected :
              \E t \in 1..Len(DeepCalls) :
                  /\ DeepCalls[t].model_dir = ModelStep((start + ind) * save_freq)
                  /\ DeepCalls[t].sequence =
                        PySlice(sequence, (start + ind) * save_freq,
                                (start + ind) * save_freq + save_freq)

\* C7 (as claimed): the message verify_hash has hashed when it compares the
\* digests is the rendering of exactly the samples the Index Sequence
\* addresses, in recorded order.
C7_DigestOverSequence ==
    (fn = "verify_hash" /\ pc = "done") => m = Rendering(datasetFile, indicesFile)

\* C8: a threshold violation or a hash mismatch is reported, not raised.
\* verify_all raises only before any distance is computed, and when it ends it
\* returns one distance per interval and metric and has logged invalid for
\* exactly the metrics with a violating interval; verify_topq raises only for
\* a missing directory, unequal list lengths, q above the number of intervals
\* of the epoch or an array index that int() rejects, and after the thresholds
\* were applied to an epoch it has logged the verdict of every metric, appended
\* the epoch's distances to res and gone on to the next epoch or the return;
\* verify_hash raises only before anything is hashed and logs invalid on a
\* mismatch.
C8_OutcomeReportedNotRaised ==
    /\ (fn = "verify_all" /\ pc = "raised") =>
          /\ raised \in {"FileNotFoundError", "AssertionError"}
          /\ distCalls = <<>>
    /\ (fn = "verify_all" /\ pc = "done") =>
          /\ raised = "none"
          /\ returned = dist_list
          /\ \A k \in 1..Len(order) :
                /\ Len(returned[k]) = CeilDiv(Len(indicesFile), save_freq)
                /\ (verdicts[k] = "invalid" <=> Violating(k) # {})
    /\ (fn = "verify_topq" /\ pc = "raised") =>
          \/ raised = "FileNotFoundError" /\ ~dirExists
          \/ raised = "AssertionError" /\ Len(orderArg.val) # Len(thresholdArg.val)
          \/ raised = "ValueError" /\ q > end - start
          \/ raised = "TypeError" /\ Len(order) = 1 /\ q > 1 /\ DeepCalls = <<>>
    /\ (fn = "verify_topq" /\ pc = "tq_epoch" /\ epoch >= 1) =>
          /\ raised = "none"
          /\ res[Len(res)] = EpochEntry(dist_list)
          /\ Len(verdicts) = Len(order)
          /\ \A k \in 1..Len(order) :
                /\ Len(dist_list[k]) = Cardinality(Selected)
                /\ (verdicts[k] = "invalid" <=> Violating(k) # {})
    /\ (fn = "verify_topq" /\ pc = "done") =>
          /\ raised = "none"
          /\ epoch = epochs
          /\ returned = res
          /\ returned[Len(returned)] = EpochEntry(dist_list)
    /\ (fn = "verify_hash" /\ pc = "raised") =>
          /\ raised = "FileNotFoundError"
          /\ m = <<>>
          /\ verdicts = <<>>
    /\ (fn = "verify_hash" /\ pc = "done") =>
          /\ raised = "none"
          /\ verdicts = <<IF hash = Hexdigest(m) THEN "valid" ELSE "invalid">>

\* C8 witness: verify_topq has returned after two epochs, the last with a violation
C8_Witness ==
    /\ fn = "verify_topq"
    /\ pc = "done"
    /\ epochs = 2
    /\ Len(order) = 2
    /\ \E k \in 1..Len(order) : above[k] >= 1 /\ verdicts[k] = "invalid"

\* C9: with the model directory missing, verify_all, verify_topq and
\* verify_hash do nothing but raise FileNotFoundError: the index sequence is
\* never loaded, train and parameter_distance are never called and nothing is
\* hashed; with hash.txt missing, verify_hash raises FileNotFoundError without
\* loading the dataset or hashing anything.
C9_MissingResourceFirst ==
    /\ ~dirExists =>
          /\ pc \in {"va_start", "tq_start", "vh_start", "raised"}
          /\ (pc = "raised" => raised = "FileNotFoundError")
          /\ sequence = <<>>
          /\ trainCalls = <<>>
          /\ distCalls = <<>>
          /\ dist_list = <<>>
          /\ m = <<>>
          /\ ~trainset.loaded
    /\ (fn = "verify_hash" /\ ~hashFileExists) =>
          /\ pc \in {"vh_start", "vh_open", "raised"}
          /\ (pc = "raised" => raised = "FileNotFoundError")
          /\ ~trainset.loaded
          /\ m = <<>>

\* C9 witness: verify_topq has raised for a missing directory
C9_Witness ==
    /\ fn = "verify_topq"
    /\ ~dirExists
    /\ pc = "raised"
    /\ raised = "FileNotFoundError"

\* the named parameters the default ruleset is said to test: the weights and
\* biases whose name contains "fc", "conv" or "linear"
NamedByLayerKind(x) ==
    /\ Contains(x.name, S_fc) \/ Contains(x.name, S_conv) \/ Contains(x.name, S_linear)
    /\ x.role \in {S_weight, S_bias}
DefaultTested == SelectSeq(net, NamedByLayerKind)

\* C10: verify_initialization picks the ruleset from the architecture name:
\* resnet20/32/44/56/110/1202 give resnet_cifar, resnet50 gives resnet_cifar100,
\* another name containing "resnet" gives resnet, any other name gives default;
\* and a finished run under the default ruleset has produced, in parameter
\* order, exactly one p-value for every weight and every bias whose name
\* contains "fc", "conv" or "linear" and none for any other parameter, each
\* bias tested together with the weight of its own layer.
C10_RulesetByName ==
    /\ (fn = "verify_initialization" /\ pc # "vi_start") =>
          /\ model_name \in CifarResnets => model_type = "resnet_cifar"
          /\ model_name = Resnet50 => model_type = "resnet_cifar100"
          /\ model_name \in OtherResnets => model_type = "resnet"
          /\ model_name \in OtherNames => model_type = "default"
    /\ (fn = "verify_initialization" /\ pc = "done" /\ model_type = "default") =>
          /\ Len(returned) = Len(DefaultTested)
          /\ \A n \in 1..Len(DefaultTested) :
                /\ returned[n].param = DefaultTested[n].name
                /\ (DefaultTested[n].role = S_weight =>
                       returned[n].rule = "default" /\ returned[n].weight = <<>>)
                /\ (DefaultTested[n].role = S_bias =>
                       /\ returned[n].rule = "default_bias"
                       /\ returned[n].weight = DefaultTested[n].layer \o <<".">> \o S_weight)

\* C10 witness: a finished run under the default ruleset that tested weights and
\* a bias and skipped two parameters
C10_Witness ==
    /\ fn = "verify_initialization"
    /\ pc = "done"
    /\ model_type = "default"
    /\ Len(net) = 5
    /\ Len(returned) = 3
    /\ returned[3].rule = "default_bias"

\* the point i/t of the way from W0' to Wt, over the denominator t
LinearPoint(n) == [ky \in StateKeys |-> args.t * w0[ky] + n * (wt[ky] - w0[ky])]

\* C11: in attack3 with verification enabled, after every step i (1 <= i <= t)
\* the network's state and the checkpoint saved for that step equal the state
\* at the start of the step plus step_weight, that is W0' + i*(Wt - W0')/t,
\* whatever the SGD updates of the step did; after step t it is Wt.
C11_LinearPath ==
    (/\ fn = "attack3"
     /\ args.verify # 0
     /\ pc \in {"at_step", "at_conclusion", "done"}
     /\ at_i >= 1) =>
        /\ at_net = NewWeight(original_weight, step_weight)
        /\ at_net = LinearPoint(at_i)
        /\ step_weight = [ky \in StateKeys |-> wt[ky] - w0[ky]]
        /\ \A n \in 1..at_i :
              /\ args.k * n \in DOMAIN checkpoints
              /\ checkpoints[args.k * n] = LinearPoint(n)
        /\ (at_i = args.t => at_net = Scaled(wt, args.t))

\* C11 witness: two steps whose SGD result was not the target, ended at Wt # W0'
C11_Witness ==
    /\ fn = "attack3"
    /\ pc = "done"
    /\ args.t = 2
    /\ args.verify = 1
    /\ wt.weight # w0.weight
    /\ tallied.second # tallied.first
    /\ at_net = Scaled(wt, 2)
    /\ checkpoints[args.k] = LinearPoint(1)

\* C12: in attack3 a step is tallied by the distance between the step's target
\* and the overwritten state original_weight + step_weight, so that with t = 1,
\* verification enabled, retry >= 1 and ceilings every attempt passes, the
\* attack ends with valid_count = 1 whatever the SGD step produced.
C12_OverwrittenPathValid ==
    (/\ fn = "attack3"
     /\ pc = "done"
     /\ args.t = 1
     /\ args.verify # 0
     /\ args.retry >= 1
     /\ \A g \in D2Values : \A r \in D2Values : Accepts(g, r, args)) =>
        /\ tallied = [first |-> target_param,
                      second |-> Parameters(NewWeight(original_weight, step_weight))]
        /\ valid_count = 1

\* the last attempt is under both ceilings
MeetsCeilings == d2grad < args.gd /\ d2r < args.nd

\* C13: in attack3 with retry >= 1 and round >= 1 the retry loop of a sub-batch
\* makes at most `retry` attempts: it goes on only after an attempt that misses
\* a ceiling, which is followed by the draw of a new base batch; it ends at the
\* first attempt under both ceilings, or after exactly `retry` failed attempts,
\* without an error; the network's parameters are those the sub-batch began with.
C13_RetryBounded ==
    (fn = "attack3" /\ args.retry >= 1 /\ args.round >= 1) =>
        /\ pc \in {"at_retry", "at_decide"} =>
              /\ at_k < args.retry
              /\ Parameters(at_net) = tmp_param
        /\ (pc = "at_retry" /\ at_k > 0) =>
              /\ ~MeetsCeilings
              /\ redrawn
              /\ dummy_data.attempt = at_k - 1
        /\ pc = "at_decide" => dummy_data.attempt = at_k /\ ~redrawn
        /\ pc = "at_persist" =>
              /\ raised = "none"
              /\ Parameters(at_net) = tmp_param
              /\ \/ /\ MeetsCeilings
                    /\ at_k < args.retry
                    /\ dummy_data.attempt = at_k
                    /\ ~redrawn
                 \/ /\ ~MeetsCeilings
                    /\ at_k = args.retry
                    /\ dummy_data.attempt = args.retry - 1
                    /\ redrawn

\* C13 witness: a retry budget of two spent on two failed attempts, under
\* ceilings an attempt can meet; the forward passes moved the buffers
C13_Witness ==
    /\ fn = "attack3"
    /\ pc = "at_persist"
    /\ args.retry = 2
    /\ args.round = 1
    /\ args.gd = 2
    /\ at_k = 2
    /\ ~MeetsCeilings
    /\ at_net.running_mean # original_weight.running_mean
    /\ raised = "none"

\* the perturbation `pert` of the last attempt, on the base images and with the
\* labels it was optimised against
LastAttempted(image, label) ==
    /\ image.pert = dummy_data
    /\ image.pert.attempt = (IF MeetsCeilings THEN at_k ELSE args.retry - 1)
    /\ image.base = image.pert.against
    /\ label = image.pert.against

\* C14: in attack3 the synthetic batch written to the dataset log and fed to
\* the SGD step of a sub-batch is the last attempted one: the perturbation of
\* the final retry attempt with the base images and labels it was optimised
\* against, whether the attempt was accepted or the retry budget was exhausted.
C14_LastAttemptedBatch ==
    (fn = "attack3" /\ pc \in {"at_sgd", "at_cut"}) =>
        /\ persisted # Unbound => LastAttempted(persisted.img, persisted.label)
        /\ sgd_batch # Unbound => LastAttempted(sgd_batch.x, sgd_batch.y)

\* the distance calls of Phase 1, over all epochs, in call order
IsRankingCall(c) == c.second[1] = "model_step"
RankingCalls == SelectSeq(distCalls, IsRankingCall)

\* C15: in verify_topq the per-epoch ranges [start, end) are consecutive and
\* disjoint and together cover every checkpoint interval verify_all verifies,
\* all ceil(N / save_freq) of them with a final shorter one: when the ranking
\* of the last epoch ends, every interval has been ranked once, in order.
C15_EpochsCoverIntervals ==
    (/\ fn = "verify_topq"
     /\ pc = "tq_rank"
     /\ epoch = epochs - 1
     /\ i >= end) =>
        /\ end = CeilDiv(Len(sequence), save_freq)
        /\ Len(RankingCalls) = CeilDiv(Len(sequence), save_freq)
        /\ \A n \in 1..Len(RankingCalls) :
              RankingCalls[n].first = ModelStep((n - 1) * save_freq)

\* C16: verify_topq returns one element per epoch, in epoch order, the element
\* of an epoch being its Phase-2 distance array (a row per metric, a column per
\* re-verified interval); the elements of earlier epochs are kept while later
\* epochs run, and no single distance is an element.
C16_OneArrayPerEpoch ==
    /\ (fn = "verify_topq" /\ pc = "tq_epoch") =>
          /\ Len(res) = epoch
          /\ \A e \in 1..Len(res) :
                /\ res[e].kind = "epoch"
                /\ Len(res[e].val) = Len(order)
          /\ epoch >= 1 => res[epoch] = EpochEntry(dist_list)
    /\ (fn = "verify_topq" /\ pc = "done") =>
          /\ Len(returned) = epochs
          /\ \A e \in 1..Len(returned) : returned[e].kind = "epoch"
          /\ returned[epochs] = EpochEntry(dist_list)

====
